---- MODULE Spec2Model ----
(***************************************************************************)
(* The realtime audio bridge of the Twilio / OpenAI calling app.           *)
(*                                                                         *)
(* Two asyncio tasks run per call: the telephony receive loop              *)
(* (media_stream, src/app/main.py) and the drain task                      *)
(* (OpenAIRealtimeBridge._forward_openai_events,                           *)
(* src/app/services/realtime_bridge.py).  asyncio switches tasks only at   *)
(* an await, so one action of this model is one task resumed from the      *)
(* await it is suspended in and run up to and including the call of the    *)
(* next await.  A socket send writes its message when it is called and     *)
(* then suspends; resumed on a lost connection it raises.  The loss of a   *)
(* connection shows only where the program sends or receives on it, so it  *)
(* is modelled there: a send or a receive may find the connection lost.    *)
(* Likewise a model event has no effect before the drain task reads it, so *)
(* it is modelled where it is read.                                        *)
(***************************************************************************)
EXTENDS Integers, Sequences, FiniteSets, TLC

\* ---------------------------------------------------------------- bounds
MaxChunks == 10      \* media frames with a convertible payload per call
MaxStarts == 2       \* start events on one telephony socket
MaxDeltas == 1       \* response.audio.delta events with audio per call
FewChunks == 1       \* the same as MaxChunks, for a call where the model talks
ManyDeltas == 2      \* the same as MaxDeltas, for a call where the model talks
MaxErrors == 1       \* error events that are counted, in such a call

\* ------------------------------------------------------ program constants
FlushThreshold == 8  \* OpenAIRealtimeBridge._flush_threshold

VARIABLES
    mpc,                    \* position of media_stream
    bridge,                 \* media_stream's local `bridge` is not None
    stream_sid,             \* streamSid of the last start event (0: none yet)
    tw,                     \* the telephony websocket
    twout,                  \* frames sent on the telephony websocket
    tw_closes,              \* calls of websocket.close()
    openai_ws,              \* bridge._openai_ws is not None
    conn,                   \* the model connection behind _openai_ws
    wire,                   \* what has been sent on the model connection
    buffer,                 \* bridge._buffer
    waiting_for_response,   \* bridge._waiting_for_response
    bridge_task,            \* bridge._bridge_task and the drain task's position
    mfl,                    \* the flush running in media_stream's task
    dfl,                    \* the flush running in the drain task
    close_raised,           \* the last call of bridge.close() raised
    snap,                   \* the session when close() was called a second time
    hist                    \* counters and records of what has happened

vars == <<mpc, bridge, stream_sid, tw, twout, tw_closes, openai_ws,
          conn, wire, buffer, waiting_for_response, bridge_task, mfl, dfl,
          close_raised, snap, hist>>

\* -------------------------------------------------------------- messages
Msg(t, a) == [type |-> t, audio |-> a]
SessionUpdateMsg == Msg("session.update", 0)
ResponseCreateMsg == Msg("response.create", 0)
CommitMsg == Msg("input_audio_buffer.commit", 0)
AppendMsg(chunk) == Msg("input_audio_buffer.append", chunk)

\* a mark frame that leaves the streamSid out
MarkFrameOfNoStream(sid) == [event |-> "mark", streamSid |-> 0, payload |-> 0]

MarkFrame(sid) == [event |-> "mark", streamSid |-> sid, payload |-> 0]
\* a media frame that leaves the streamSid out
MediaFrameOfNoStream(sid, p) ==
    [event |-> "media", streamSid |-> 0, payload |-> p]

MediaFrame(sid, p) == [event |-> "media", streamSid |-> sid, payload |-> p]

\* Payloads of Twilio media frames: a record of the kind of payload and, for
\* a decodable one, the number of the frame that carried it.
PayloadKinds == {"ok", "badpad", "nodata", "nonstr", "empty"}

\* _convert_twilio_to_openai: the converted chunk (a positive number naming
\* the PCM chunk made from frame p.id), or 0 for None / the empty string.
\* "badpad": b64decode raises binascii.Error (a ValueError), caught -> None.
\* "nodata": the payload decodes to no bytes, the result is "" (falsy).
\* ("nonstr", a payload that is no string, such as a JSON number, makes
\* b64decode raise TypeError, which line 167 does not catch; "empty", a
\* falsy payload, never reaches the conversion.)
convert_twilio_to_openai(p) ==
    IF p.kind = "ok" THEN p.id ELSE 0

\* _convert_openai_to_twilio, on the payload of a delta event (a number d > 0
\* for a decodable payload): the mu-law chunk, or 0 for None.
convert_openai_to_twilio(d) ==
    IF d > 0 THEN d ELSE 0

\* ------------------------------------------------------------ flush state
Idle == [ph |-> "idle", i |-> 0, start |-> <<>>, sent |-> <<>>]

\* The model connection's traffic, as far as the session's protocol goes:
\*   updates      session.update messages sent
\*   outstanding  response.create messages sent minus response.completed
\*                events the drain task has processed
\*   high         the latest chunk sent in an input_audio_buffer.append
\*   misordered   an append carried a chunk that arrived before a chunk
\*                sent earlier
\*   guarded      every append and commit was sent while no response was
\*                awaited
NoWire == [updates |-> 0, outstanding |-> 0, high |-> 0,
           misordered |-> FALSE, guarded |-> TRUE]

SendAs(w, m, waiting) ==
    CASE m.type = "session.update" -> [w EXCEPT !.updates = @ + 1]
      [] m.type = "response.create" ->
            [w EXCEPT !.outstanding = @ + 1]
      [] m.type = "input_audio_buffer.append" ->
            [w EXCEPT !.high = IF m.audio > @ THEN m.audio ELSE @,
                      !.misordered = @ \/ m.audio < w.high,
                      !.guarded = @ /\ ~waiting]
      [] m.type = "input_audio_buffer.commit" ->
            [w EXCEPT !.guarded = @ /\ ~waiting]

Send(w, m) == SendAs(w, m, waiting_for_response)

\* What has happened in the call:
\*   chunks          media frames whose payload was appended to a buffer
\*   starts          start events received
\*   deltas          delta events with audio read by a drain task
\*   leaked          sessions replaced by a later start event while their
\*                   connection was open or their drain task alive
\*   connect_failed  where connect() failed ("no": it has not)
\*   drain_ran       the session's drain task has run
\*   errors          error events read by the drain task, as far as counted
\*   early_media     a media frame has been received and no start event yet
\*   turn            "initial": the drain task has processed no
\*                   response.completed; "first": it has processed one, after
\*                   connect() had returned and before any chunk was
\*                   appended; "later": anything else
NoHist == [chunks |-> 0, starts |-> 0, deltas |-> 0, leaked |-> 0,
           connect_failed |-> "no", drain_ran |-> FALSE,
           errors |-> 0, early_media |-> FALSE, turn |-> "initial"]

\* the model connection as a failing send or receive finds it
LostConn == IF conn = "open" THEN "lost" ELSE conn

\* media_stream has left its receive loop and is about to run its finally
\* block ("chunk_error": handle_audio_chunk raised in the conversion)
LoopLeft == mpc \in {"teardown", "chunk_error"}

TaskRunning == bridge_task \in {"created", "recv", "twsend", "flush"}
Finished == mpc \in {"done", "crashed"}

Init ==
    /\ mpc = "recv"
    /\ bridge = FALSE
    /\ stream_sid = 0
    /\ tw = "connected"
    /\ twout = <<>>
    /\ tw_closes = 0
    /\ openai_ws = FALSE
    /\ conn = "none"
    /\ wire = NoWire
    /\ buffer = <<>>
    /\ waiting_for_response = FALSE
    /\ bridge_task = "none"
    /\ mfl = Idle
    /\ dfl = Idle
    /\ close_raised = FALSE
    /\ snap = <<>>
    /\ hist = NoHist

\* ------------------------------------------------- _flush_audio_buffer
\* `for chunk in self._buffer` reads the live list by index: the iterator of
\* a flush is fl.i, and it ends when fl.i reaches the list's current length.
\* fl.start is the buffer when the flush began, fl.sent the chunks it sent.
FlushEntryFl(buf) ==
    [ph |-> "append", i |-> 1, start |-> buf, sent |-> <<buf[1]>>]

FlushMore(fl) == fl.ph = "append" /\ fl.i < Len(buffer)

FlushNextMsg(fl) ==
    IF FlushMore(fl) THEN AppendMsg(buffer[fl.i + 1])
    ELSE IF fl.ph = "append" THEN CommitMsg
    ELSE ResponseCreateMsg

FlushNextFl(fl) ==
    IF FlushMore(fl)
    THEN [fl EXCEPT !.i = @ + 1, !.sent = Append(@, buffer[fl.i + 1])]
    ELSE IF fl.ph = "append" THEN [fl EXCEPT !.ph = "commit"]
    ELSE [fl EXCEPT !.ph = "create"]

\* the condition with a threshold that must be exceeded, not reached
ShouldFlushLate(buf, waiting) ==
    Len(buf) > FlushThreshold /\ ~waiting

\* handle_audio_chunk's condition for flushing, after its append
ShouldFlush(buf, waiting) ==
    Len(buf) >= FlushThreshold /\ ~waiting

\* --------------------------------------------------------- bridge.close()
\* The parts of close() and of media_stream's finally block, each the code
\* from one point to the next await.  They assign
\* <<mpc, bridge_task, dfl, conn, tw, tw_closes, close_raised>>.
\* main.py 172-173: close the telephony socket unless client_state is
\* DISCONNECTED (set when the receive loop was given the disconnect).
FinallyRest ==
    IF tw # "disconnected"
    THEN /\ mpc' = "tw_close"
         /\ tw' = "closed"
         /\ tw_closes' = tw_closes + 1
    ELSE /\ mpc' = "done"
         /\ UNCHANGED <<tw, tw_closes>>

CloseReturn(again) ==
    /\ close_raised' = FALSE
    /\ IF again
       THEN mpc' = "end2" /\ UNCHANGED <<tw, tw_closes>>
       ELSE FinallyRest

\* close() raised: the exception leaves the finally block, skipping line 172
CloseRaise(again) ==
    /\ close_raised' = TRUE
    /\ mpc' = IF again THEN "end2" ELSE "crashed"
    /\ UNCHANGED <<tw, tw_closes>>

\* realtime_bridge.py 149-150
CloseWsPart(again) ==
    IF openai_ws
    THEN /\ mpc' = "cl_wsclose"
         /\ conn' = IF conn = "open" THEN "closed" ELSE conn
         /\ close_raised' = FALSE
         /\ UNCHANGED <<tw, tw_closes>>
    ELSE /\ conn' = conn
         /\ CloseReturn(again)

\* close() going on to the connection with the drain task left as it is
CloseTaskPartNoCancel(again) ==
    UNCHANGED <<bridge_task, dfl>> /\ CloseWsPart(again)

\* realtime_bridge.py 144-147: cancel() makes the drain task end with
\* CancelledError at its next step, whatever await it is suspended in;
\* awaiting a task that has died re-raises what it died with.
CloseTaskPart(again) ==
    CASE bridge_task = "none" ->
            UNCHANGED <<bridge_task, dfl>> /\ CloseWsPart(again)
      [] bridge_task \in {"created", "recv", "twsend", "flush"} ->
            /\ bridge_task' = "cancelled"
            /\ dfl' = Idle
            /\ mpc' = "cl_await"
            /\ close_raised' = FALSE
            /\ UNCHANGED <<conn, tw, tw_closes>>
      [] bridge_task \in {"done", "cancelled"} ->
            UNCHANGED <<bridge_task, dfl>> /\ CloseWsPart(again)
      [] bridge_task = "failed" ->
            UNCHANGED <<bridge_task, dfl, conn>> /\ CloseRaise(again)

\* realtime_bridge.py 141-142, then on; assigns <<wire, mfl>> as well
CloseBegin(again) ==
    IF buffer # <<>> /\ openai_ws /\ ~waiting_for_response
    THEN IF conn = "open"
         THEN /\ wire' = Send(wire, AppendMsg(buffer[1]))
              /\ mfl' = FlushEntryFl(buffer)
              /\ mpc' = "cl_flush"
              /\ close_raised' = FALSE
              /\ UNCHANGED <<bridge_task, dfl, conn, tw, tw_closes>>
         ELSE /\ UNCHANGED <<wire, mfl, bridge_task, dfl, conn>>
              /\ CloseRaise(again)
    ELSE /\ UNCHANGED <<wire, mfl>>
         /\ CloseTaskPart(again)

\* media_stream's finally block, lines 169-173
Teardown ==
    /\ LoopLeft
    /\ IF bridge
       THEN CloseBegin(FALSE)
       ELSE /\ UNCHANGED <<wire, mfl, bridge_task, dfl, conn>>
            /\ close_raised' = FALSE
            /\ FinallyRest
    /\ UNCHANGED <<bridge, stream_sid, twout, openai_ws,
                   buffer, waiting_for_response, snap, hist>>

CloseFlushSend ==
    /\ mpc = "cl_flush"
    /\ mfl.ph \in {"append", "commit"}
    /\ conn = "open"
    /\ wire' = Send(wire, FlushNextMsg(mfl))
    /\ mfl' = FlushNextFl(mfl)
    /\ UNCHANGED <<mpc, bridge, stream_sid, tw, twout, tw_closes, openai_ws,
                   conn, buffer, waiting_for_response, bridge_task, dfl,
                   close_raised, snap, hist>>

CloseFlushFail ==
    /\ mpc = "cl_flush"
    /\ conn' = LostConn
    /\ mfl' = Idle
    /\ CloseRaise(snap # <<>>)
    /\ UNCHANGED <<bridge, stream_sid, twout, openai_ws,
                   wire, buffer, waiting_for_response, bridge_task, dfl,
                   snap, hist>>

CloseFlushDone ==
    /\ mpc = "cl_flush"
    /\ mfl.ph = "create"
    /\ conn = "open"
    /\ waiting_for_response' = TRUE
    /\ buffer' = <<>>
    /\ mfl' = Idle
    /\ CloseTaskPart(snap # <<>>)
    /\ UNCHANGED <<bridge, stream_sid, twout, openai_ws, wire,
                   snap, hist>>

CloseAwaitDone ==
    /\ mpc = "cl_await"
    /\ CloseWsPart(snap # <<>>)
    /\ UNCHANGED <<bridge, stream_sid, twout, openai_ws, wire,
                   buffer, waiting_for_response, bridge_task, mfl, dfl,
                   snap, hist>>

CloseWsDone ==
    /\ mpc = "cl_wsclose"
    /\ openai_ws' = FALSE
    /\ CloseReturn(snap # <<>>)
    /\ UNCHANGED <<bridge, stream_sid, twout, conn, wire,
                   buffer, waiting_for_response, bridge_task, mfl, dfl, snap,
                   hist>>

TwCloseDone ==
    /\ mpc = "tw_close"
    /\ mpc' = "done"
    /\ UNCHANGED <<bridge, stream_sid, tw, twout, tw_closes, openai_ws, conn,
                   wire, buffer, waiting_for_response, bridge_task, mfl, dfl,
                   close_raised, snap, hist>>

\* The session as close() leaves or finds it
Session ==
    [buffer |-> buffer, waiting |-> waiting_for_response, ws |-> openai_ws,
     task |-> bridge_task, conn |-> conn, wire |-> wire,
     twout |-> Len(twout)]

\* close() called on the session once more, after media_stream has called it
\* (the session's contract is that this is safe)
SecondClose ==
    /\ Finished
    /\ bridge
    /\ snap = <<>>
    /\ snap' = <<Session>>
    /\ CloseBegin(TRUE)
    /\ UNCHANGED <<bridge, stream_sid, twout, openai_ws,
                   buffer, waiting_for_response, hist>>


\* ------------------------------------------------ media_stream: receive loop
RecvIdle == <<bridge, stream_sid, tw, twout, tw_closes, openai_ws, conn, wire,
              buffer, waiting_for_response, bridge_task, mfl, dfl,
              close_raised, snap, hist>>

\* main.py 125-126: a "connected" frame, or one with another event name
RecvConnected ==
    /\ mpc = "recv"
    /\ tw = "connected"
    /\ UNCHANGED vars

\* main.py 163-165
RecvStop ==
    /\ mpc = "recv"
    /\ tw = "connected"
    /\ mpc' = "teardown"
    /\ UNCHANGED RecvIdle

\* main.py 122: json.loads raises on a frame that is no JSON
RecvGarbage ==
    /\ mpc = "recv"
    /\ tw = "connected"
    /\ mpc' = "teardown"
    /\ UNCHANGED RecvIdle

\* main.py 167-168: the caller's side has gone, iter_text raises
\* WebSocketDisconnect and client_state is DISCONNECTED
RecvDisconnect ==
    /\ mpc = "recv"
    /\ tw \in {"connected", "peer_gone"}
    /\ tw' = "disconnected"
    /\ mpc' = "teardown"
    /\ UNCHANGED <<bridge, stream_sid, twout, tw_closes, openai_ws,
                   conn, wire, buffer, waiting_for_response, bridge_task,
                   mfl, dfl, close_raised, snap, hist>>

\* main.py 128-144 up to the await of websockets.connect in connect(): a new
\* bridge object is bound to the local `bridge`; a bridge that was bound to
\* it before is not closed.  Assigns all variables.
StartSession ==
    /\ mpc = "recv"
    /\ tw = "connected"
    /\ bridge' = TRUE
    /\ stream_sid' = hist.starts + 1
    /\ openai_ws' = FALSE
    /\ conn' = "none"
    /\ wire' = NoWire
    /\ buffer' = <<>>
    /\ waiting_for_response' = FALSE
    /\ bridge_task' = "none"
    /\ dfl' = Idle
    /\ hist' = [hist EXCEPT !.starts = @ + 1,
                            !.leaked = IF conn = "open" \/ TaskRunning
                                       THEN @ + 1 ELSE @,
                            !.connect_failed = "no",
                            !.drain_ran = FALSE,
                            !.early_media = FALSE,
                            !.turn = "initial"]
    /\ mpc' = "connecting"
    /\ UNCHANGED <<tw, twout, tw_closes, mfl, close_raised, snap>>

\* the start event of the call (Twilio sends one per stream)
RecvStart ==
    /\ ~bridge
    /\ StartSession

\* a further start event on the same telephony socket
RecvRestart ==
    /\ bridge
    /\ hist.starts < MaxStarts
    /\ StartSession

\* main.py 145-147: connect() raised
ConnectFails(stage) ==
    /\ mpc' = "teardown"
    /\ hist' = [hist EXCEPT !.connect_failed = stage]

\* realtime_bridge.py 49-59: the handshake ends; session.update is sent
ConnectHandshake ==
    /\ mpc = "connecting"
    /\ \/ /\ openai_ws' = TRUE
          /\ conn' = "open"
          /\ wire' = Send(wire, SessionUpdateMsg)
          /\ mpc' = "c_update"
          /\ UNCHANGED hist
       \/ /\ ConnectFails("handshake")
          /\ UNCHANGED <<openai_ws, conn, wire>>
    /\ UNCHANGED <<bridge, stream_sid, tw, twout, tw_closes, buffer,
                   waiting_for_response, bridge_task, mfl, dfl, close_raised,
                   snap>>

\* realtime_bridge.py 59-70: the send of session.update ends; the drain task
\* is created and response.create is sent
ConnectUpdateDone ==
    /\ mpc = "c_update"
    /\ \/ /\ conn = "open"
          /\ bridge_task' = "created"
          /\ wire' = Send(wire, ResponseCreateMsg)
          /\ mpc' = "c_create"
          /\ UNCHANGED <<hist, conn>>
       \/ /\ conn' = LostConn
          /\ ConnectFails("update")
          /\ UNCHANGED <<bridge_task, wire>>
    /\ UNCHANGED <<bridge, stream_sid, tw, twout, tw_closes, openai_ws,
                   buffer, waiting_for_response, mfl, dfl, close_raised,
                   snap>>

\* A frame sent on the telephony socket by media_stream: it is written, or
\* the caller's side is found gone and the send raises (WebSocketDisconnect,
\* which the loop catches, or another exception: both run the finally block).
\* Assigns <<mpc, tw, twout>>.
MainTwSend(frame, next) ==
    \/ /\ tw = "connected"
       /\ twout' = Append(twout, frame)
       /\ mpc' = next
       /\ UNCHANGED tw
    \/ /\ tw' = "peer_gone"
       /\ UNCHANGED twout
       /\ mpc' = "teardown"

\* realtime_bridge.py 63-71 and main.py 149-155: the send of response.create
\* ends, the flag is set and the mark frame is sent
ConnectCreateDone ==
    /\ mpc = "c_create"
    /\ \/ /\ conn = "open"
          /\ waiting_for_response' = TRUE
          /\ MainTwSend(MarkFrame(stream_sid), "mark")
          /\ UNCHANGED <<hist, conn>>
       \/ /\ conn' = LostConn
          /\ ConnectFails("create")
          /\ UNCHANGED <<waiting_for_response, tw, twout>>
    /\ UNCHANGED <<bridge, stream_sid, tw_closes, openai_ws, wire, buffer,
                   bridge_task, mfl, dfl, close_raised, snap>>

MarkDone ==
    /\ mpc = "mark"
    /\ mpc' = "recv"
    /\ UNCHANGED RecvIdle

\* the test of the payload alone, without the bridge and its connection
MediaIgnoredAnySession(p) ==
    p.kind = "empty"

\* main.py 157, 160 and realtime_bridge.py 75-76: a media frame is ignored
\* when there is no bridge, no payload or no model connection
MediaIgnored(p) ==
    ~bridge \/ p.kind = "empty" \/ ~openai_ws

\* main.py 157-161 and handle_audio_chunk, up to the first send of a flush
RecvMediaWithin(p, limit) ==
    /\ mpc = "recv"
    /\ tw = "connected"
    /\ p.kind = "ok" => hist.chunks < limit
    /\ IF MediaIgnored(p)
       THEN /\ hist' = [hist EXCEPT !.early_media = @ \/ ~bridge]
            /\ UNCHANGED <<mpc, bridge, stream_sid, tw, twout, tw_closes,
                           openai_ws, conn, wire, buffer,
                           waiting_for_response, bridge_task, mfl, dfl,
                           close_raised, snap>>
       ELSE IF p.kind = "nonstr"
       THEN /\ mpc' = "chunk_error"
            /\ UNCHANGED RecvIdle
       ELSE LET converted == convert_twilio_to_openai(p)
                buf == Append(buffer, converted)
            IN  IF converted = 0
                THEN UNCHANGED vars
                ELSE /\ buffer' = buf
                     /\ hist' = [hist EXCEPT !.chunks = @ + 1]
                     /\ IF ShouldFlush(buf, waiting_for_response)
                        THEN IF conn = "open"
                             THEN /\ wire' = Send(wire, AppendMsg(buf[1]))
                                  /\ mfl' = FlushEntryFl(buf)
                                  /\ mpc' = "hac_flush"
                             ELSE /\ mpc' = "teardown"
                                  /\ UNCHANGED <<wire, mfl>>
                        ELSE UNCHANGED <<wire, mfl, mpc>>
                     /\ UNCHANGED <<bridge, stream_sid, tw, twout, tw_closes,
                                    openai_ws, conn, waiting_for_response,
                                    bridge_task, dfl, close_raised, snap>>

RecvMedia(p) == RecvMediaWithin(p, MaxChunks)

Payloads ==
    {[kind |-> "ok", id |-> hist.chunks + 1]}
    \cup {[kind |-> k, id |-> 0] : k \in PayloadKinds \ {"ok"}}

\* the flush started by handle_audio_chunk, resumed from a send
HacFlushSend ==
    /\ mpc = "hac_flush"
    /\ mfl.ph \in {"append", "commit"}
    /\ conn = "open"
    /\ wire' = Send(wire, FlushNextMsg(mfl))
    /\ mfl' = FlushNextFl(mfl)
    /\ UNCHANGED <<mpc, bridge, stream_sid, tw, twout, tw_closes, openai_ws,
                   conn, buffer, waiting_for_response, bridge_task, dfl,
                   close_raised, snap, hist>>

HacFlushFail ==
    /\ mpc = "hac_flush"
    /\ conn' = LostConn
    /\ mfl' = Idle
    /\ mpc' = "teardown"
    /\ UNCHANGED <<bridge, stream_sid, tw, twout, tw_closes, openai_ws, wire,
                   buffer, waiting_for_response, bridge_task, dfl,
                   close_raised, snap, hist>>

\* realtime_bridge.py 105-106, and back to the receive loop
HacFlushDone ==
    /\ mpc = "hac_flush"
    /\ mfl.ph = "create"
    /\ conn = "open"
    /\ waiting_for_response' = TRUE
    /\ buffer' = <<>>
    /\ mfl' = Idle
    /\ mpc' = "recv"
    /\ UNCHANGED <<bridge, stream_sid, tw, twout, tw_closes, openai_ws, conn,
                   wire, bridge_task, dfl, close_raised, snap, hist>>

\* ------------------------------------------------ _forward_openai_events
DrainIdle == <<mpc, bridge, stream_sid, tw_closes, openai_ws, mfl,
               close_raised, snap>>

\* media_stream that has left its loop is on its way into close() with no
\* await in between: the drain task takes no step there.
DrainMayRun == ~LoopLeft

\* the drain task is waiting for a message of a connection that was opened
DrainReading ==
    /\ DrainMayRun
    /\ bridge_task = "recv"
    /\ conn \in {"open", "lost"}

\* the task created by connect() runs for the first time (lines 109-110)
DrainStart ==
    /\ DrainMayRun
    /\ bridge_task = "created"
    /\ bridge_task' = "recv"
    /\ hist' = [hist EXCEPT !.drain_ran = TRUE]
    /\ UNCHANGED <<tw, twout, conn, wire, buffer, waiting_for_response, dfl>>
    /\ UNCHANGED DrainIdle

\* lines 114-115 and _send_audio_to_twilio, for a delta event whose payload
\* is d (0: no payload, or one that does not convert)
DrainDeltaWithin(d, limit) ==
    /\ DrainReading
    /\ d > 0 => hist.deltas < limit /\ d = hist.deltas + 1
    /\ hist' = [hist EXCEPT !.deltas = IF d > 0 THEN @ + 1 ELSE @]
    /\ LET converted == convert_openai_to_twilio(d) IN
       IF converted = 0
       THEN UNCHANGED <<tw, twout, bridge_task>>
       ELSE \/ /\ tw = "connected"
               /\ twout' = Append(twout, MediaFrame(stream_sid, converted))
               /\ bridge_task' = "twsend"
               /\ UNCHANGED tw
            \/ /\ tw' = IF tw = "connected" THEN "peer_gone" ELSE tw
               /\ bridge_task' = "failed"
               /\ UNCHANGED twout
    /\ UNCHANGED <<conn, wire, buffer, waiting_for_response, dfl>>
    /\ UNCHANGED DrainIdle

DrainDelta(d) == DrainDeltaWithin(d, MaxDeltas)

DrainTwSendDone ==
    /\ DrainMayRun
    /\ bridge_task = "twsend"
    /\ bridge_task' = "recv"
    /\ UNCHANGED <<tw, twout, conn, wire, buffer, waiting_for_response, dfl,
                   hist>>
    /\ UNCHANGED DrainIdle

\* lines 117-120, up to the first send of the flush; the model answers each
\* response.create with at most one response.completed
DrainCompleted ==
    /\ DrainReading
    /\ wire.outstanding > 0
    /\ waiting_for_response' = FALSE
    /\ LET w == [wire EXCEPT !.outstanding = @ - 1] IN
       IF buffer # <<>> /\ openai_ws
       THEN IF conn = "open"
            THEN /\ wire' = SendAs(w, AppendMsg(buffer[1]), FALSE)
                 /\ dfl' = FlushEntryFl(buffer)
                 /\ bridge_task' = "flush"
            ELSE /\ bridge_task' = "failed"
                 /\ wire' = w
                 /\ UNCHANGED dfl
       ELSE wire' = w /\ UNCHANGED <<dfl, bridge_task>>
    /\ hist' = [hist EXCEPT !.turn =
                  IF @ = "initial" /\ waiting_for_response /\ hist.chunks = 0
                  THEN "first" ELSE "later"]
    /\ UNCHANGED <<tw, twout, conn, buffer>>
    /\ UNCHANGED DrainIdle

\* an error event that ends the drain task
DrainErrorFatal(limit) ==
    /\ DrainReading
    /\ bridge_task' = "failed"
    /\ hist' = [hist EXCEPT !.errors = IF @ < limit THEN @ + 1 ELSE @]
    /\ UNCHANGED <<tw, twout, conn, wire, buffer, waiting_for_response, dfl>>
    /\ UNCHANGED DrainIdle

\* lines 122-123: an error event is logged; the first `limit` of them are
\* counted
DrainErrorWithin(limit) ==
    /\ DrainReading
    /\ hist' = [hist EXCEPT !.errors = IF @ < limit THEN @ + 1 ELSE @]
    /\ UNCHANGED <<tw, twout, conn, wire, buffer, waiting_for_response, dfl,
                   bridge_task>>
    /\ UNCHANGED DrainIdle

DrainError == DrainErrorWithin(0)

\* line 111: json.loads raises on a message that is no JSON
DrainGarbage ==
    /\ DrainReading
    /\ bridge_task' = "failed"
    /\ UNCHANGED <<tw, twout, conn, wire, buffer, waiting_for_response, dfl,
                   hist>>
    /\ UNCHANGED DrainIdle

\* line 110: the iteration ends when the connection has closed normally and
\* raises ConnectionClosedError when it was lost
DrainEnd ==
    /\ DrainReading
    /\ conn' = LostConn
    /\ bridge_task' \in {"done", "failed"}
    /\ UNCHANGED <<tw, twout, wire, buffer, waiting_for_response, dfl, hist>>
    /\ UNCHANGED DrainIdle

\* the flush started by the drain task, resumed from a send
DrainFlushSend ==
    /\ DrainMayRun
    /\ bridge_task = "flush"
    /\ dfl.ph \in {"append", "commit"}
    /\ conn = "open"
    /\ wire' = Send(wire, FlushNextMsg(dfl))
    /\ dfl' = FlushNextFl(dfl)
    /\ UNCHANGED <<tw, twout, conn, buffer, waiting_for_response, bridge_task,
                   hist>>
    /\ UNCHANGED DrainIdle

DrainFlushFail ==
    /\ DrainMayRun
    /\ bridge_task = "flush"
    /\ conn' = LostConn
    /\ dfl' = Idle
    /\ bridge_task' = "failed"
    /\ UNCHANGED <<tw, twout, wire, buffer, waiting_for_response, hist>>
    /\ UNCHANGED DrainIdle

DrainFlushDone ==
    /\ DrainMayRun
    /\ bridge_task = "flush"
    /\ dfl.ph = "create"
    /\ conn = "open"
    /\ waiting_for_response' = TRUE
    /\ buffer' = <<>>
    /\ dfl' = Idle
    /\ bridge_task' = "recv"
    /\ UNCHANGED <<tw, twout, conn, wire, hist>>
    /\ UNCHANGED DrainIdle

\* ------------------------------------------------------------ the program
MainStep ==
    \/ RecvConnected
    \/ RecvStart
    \/ \E p \in Payloads : RecvMedia(p)
    \/ RecvStop
    \/ RecvGarbage
    \/ RecvDisconnect
    \/ ConnectHandshake
    \/ ConnectUpdateDone
    \/ ConnectCreateDone
    \/ MarkDone
    \/ HacFlushSend
    \/ HacFlushFail
    \/ HacFlushDone
    \/ Teardown
    \/ CloseFlushSend
    \/ CloseFlushFail
    \/ CloseFlushDone
    \/ CloseAwaitDone
    \/ CloseWsDone
    \/ TwCloseDone

DrainStep ==
    \/ DrainStart
    \/ \E d \in {0, hist.deltas + 1} : DrainDelta(d)
    \/ DrainTwSendDone
    \/ DrainCompleted
    \/ DrainError
    \/ DrainGarbage
    \/ DrainEnd
    \/ DrainFlushSend
    \/ DrainFlushFail
    \/ DrainFlushDone

Next == MainStep \/ DrainStep

Spec == Init /\ [][Next]_vars

\* the program in a call where the caller says little and the model much:
\* at most FewChunks chunks, which never reach the flush threshold of
\* handle_audio_chunk, and up to ManyDeltas deltas with audio
NextDeltas ==
    \/ RecvConnected
    \/ RecvStart
    \/ \E p \in Payloads : RecvMediaWithin(p, FewChunks)
    \/ RecvStop
    \/ RecvGarbage
    \/ RecvDisconnect
    \/ ConnectHandshake
    \/ ConnectUpdateDone
    \/ ConnectCreateDone
    \/ MarkDone
    \/ Teardown
    \/ CloseFlushSend
    \/ CloseFlushFail
    \/ CloseFlushDone
    \/ CloseAwaitDone
    \/ CloseWsDone
    \/ TwCloseDone
    \/ DrainStart
    \/ \E d \in {0, hist.deltas + 1} : DrainDeltaWithin(d, ManyDeltas)
    \/ DrainTwSendDone
    \/ DrainCompleted
    \/ DrainErrorWithin(MaxErrors)
    \/ DrainGarbage
    \/ DrainEnd
    \/ DrainFlushSend
    \/ DrainFlushFail
    \/ DrainFlushDone

SpecDeltas == Init /\ [][NextDeltas]_vars

\* the same call, when the telephony socket carries more than one start
\* event
NextRestart == NextDeltas \/ RecvRestart

SpecRestart == Init /\ [][NextRestart]_vars

\* the program, with close() called on the session a second time
NextTwice == Next \/ SecondClose

SpecTwice == Init /\ [][NextTwice]_vars

\* The steps the program takes by itself: a task resumed from a send, a
\* close or a handshake, which end whether they succeed or fail.  The steps
\* left out wait for a frame of the telephony socket or for an event of the
\* model connection, which may never come.
ProgramStep ==
    \/ ConnectHandshake
    \/ ConnectUpdateDone
    \/ ConnectCreateDone
    \/ MarkDone
    \/ HacFlushSend
    \/ HacFlushFail
    \/ HacFlushDone
    \/ Teardown
    \/ CloseFlushSend
    \/ CloseFlushFail
    \/ CloseFlushDone
    \/ CloseAwaitDone
    \/ CloseWsDone
    \/ TwCloseDone
    \/ DrainStart
    \/ DrainTwSendDone
    \/ DrainFlushSend
    \/ DrainFlushFail
    \/ DrainFlushDone

\* the event loop runs a task that is ready to run
FairSpec == Spec /\ WF_vars(ProgramStep)

\* ------------------------------------------------------------------ claims
Ids(a, b) == [j \in 1..(b - a + 1) |-> a + j - 1]

FlushRunning == mfl.ph # "idle" \/ dfl.ph # "idle"

\* C1: while awaiting-response is true no input_audio_buffer.append and no
\* input_audio_buffer.commit is sent, and the buffer does not get shorter
\* until the next response.completed has been processed.
C1_NoFlushWhileAwaiting ==
    [][waiting_for_response =>
          /\ wire'.guarded = wire.guarded
          /\ waiting_for_response' => Len(buffer') >= Len(buffer)]_vars

\* C2: at most one response.create is outstanding, that is, sent and not yet
\* answered by a response.completed the drain task has processed.
C2_OneOutstandingRequest ==
    wire.outstanding <= 1

\* C3: flushes do not overlap, whichever of handle_audio_chunk, the drain
\* task and close() started them, and no chunk is appended to the buffer
\* while a flush is in progress.
C3_FlushCriticalSection ==
    [][/\ ~(mfl'.ph # "idle" /\ dfl'.ph # "idle")
       /\ FlushRunning => Len(buffer') <= Len(buffer)]_vars

\* C4: the append messages on the model connection carry the chunks in the
\* order in which the chunks arrived: no chunk is sent after a chunk that
\* arrived later.
C4_AppendsInArrivalOrder ==
    ~wire.misordered

\* C5: when the handler has ended, the model connection has been closed and
\* the telephony socket has been closed (or was disconnected by the caller),
\* also when close() or another step of the teardown failed.
C5_TeardownClosesBoth ==
    Finished => conn # "open" /\ tw \in {"closed", "disconnected"}

\* C6: a failure of either socket leads to the teardown of the whole call:
\* once the model connection is lost the telephony socket gets closed, and
\* once the caller's side is gone the model connection does not stay open.
C6_FailureLeadsToTeardown ==
    /\ (conn = "lost") ~> (tw \in {"closed", "disconnected"})
    /\ (tw \in {"peer_gone", "disconnected"}) ~> (conn # "open")

\* C7: when connect() has failed, at the handshake or at one of its two
\* sends, the call ends with no drain task having run, the model connection
\* not open, no mark frame sent and the telephony socket closed exactly once.
C7_ConnectFailureClean ==
    (hist.connect_failed # "no" /\ Finished) =>
        /\ ~hist.drain_ran
        /\ conn # "open"
        /\ \A k \in 1..Len(twout) : twout[k].event # "mark"
        /\ tw_closes = 1

\* C8: close() called again on a closed session, whether its drain task
\* ended normally or with an exception, changes nothing of the session,
\* sends nothing and raises nothing.
C8_CloseIdempotent ==
    mpc = "end2" => ~close_raised /\ Session = snap[1]

\* C9: a response.completed processed while k > 0 chunks are pending makes
\* the drain task flush exactly those k chunks, and awaiting-response is true
\* again afterwards; processed while the buffer is empty it leaves
\* awaiting-response false and sends nothing.
C9_CompletionFlushesPending ==
    [][/\ (dfl.ph = "create" /\ dfl'.ph = "idle" /\ bridge_task' = "recv") =>
              dfl.sent = dfl.start /\ waiting_for_response'
       /\ (wire'.outstanding < wire.outstanding /\ buffer = <<>>) =>
              /\ ~waiting_for_response'
              /\ wire' = [wire EXCEPT !.outstanding = @ - 1]]_vars

\* C10, as the specification states it: on a connected session that has
\* processed no response.completed, the flush is triggered right after the
\* chunk that reaches the threshold, so that after MaxChunks chunks the
\* buffer holds the MaxChunks - FlushThreshold chunks that came after it.
C10_FlushAtThresholdUnanswered ==
    (hist.turn = "initial" /\ mpc = "recv" /\ hist.chunks = MaxChunks) =>
        buffer = Ids(FlushThreshold + 1, MaxChunks)

\* C10, amended: connect() leaves awaiting-response true, so as long as no
\* response.completed has been processed nothing is flushed and the buffer
\* holds every chunk fed.  Once the response.completed that answers
\* connect()'s request has been processed (after connect() returned, before
\* the first chunk), the flush is triggered right after the chunk that
\* reaches the threshold, it takes the first FlushThreshold chunks, and the
\* buffer holds the chunks that came after them.
C10_FlushAtThreshold ==
    /\ hist.turn = "initial" =>
          wire.high = 0 /\ buffer = Ids(1, hist.chunks)
    /\ (hist.turn = "first" /\ mpc = "recv") =>
          IF hist.chunks < FlushThreshold
          THEN wire.high = 0 /\ buffer = Ids(1, hist.chunks)
          ELSE /\ wire.high = FlushThreshold
               /\ buffer = Ids(FlushThreshold + 1, hist.chunks)
               /\ waiting_for_response
    /\ (hist.turn = "first" /\ mpc = "hac_flush") =>
          hist.chunks = FlushThreshold /\ mfl.start = Ids(1, FlushThreshold)

\* the feed of C10 has been given in full and the flush has happened
C10_Fed ==
    /\ hist.turn = "first"
    /\ mpc = "recv"
    /\ hist.chunks = MaxChunks
    /\ Len(buffer) = MaxChunks - FlushThreshold

\* C11: a chunk that does not decode is dropped: handle_audio_chunk does not
\* raise on it, so the receive loop is never left because of such a chunk
\* (the buffer, the flag and the model connection are as they were and the
\* loop takes the next frame).
C11_UndecodableChunkDropped ==
    mpc # "chunk_error"

\* the steps of one flush follow each other as appends, commit, create
FlushOrder(fl, fl2) ==
    /\ fl.ph = "idle" => fl2.ph \in {"idle", "append"}
    /\ fl.ph = "append" => fl2.ph \in {"append", "commit", "idle"}
    /\ fl.ph = "commit" => fl2.ph \in {"commit", "create", "idle"}
    /\ fl.ph = "create" => fl2.ph \in {"create", "idle"}

\* the flush goes on from its appends to its commit
FlushCommits(fl, fl2) == fl.ph = "append" /\ fl2.ph = "commit"

\* C12: a flush of n >= 1 pending chunks sends n append messages, one for
\* each chunk that was pending when it began, then one commit, then one
\* response.create; no flush runs on an empty buffer.
C12_FlushShape ==
    [][/\ FlushOrder(mfl, mfl') /\ FlushOrder(dfl, dfl')
       /\ FlushCommits(mfl, mfl') => mfl.sent = mfl.start
       /\ FlushCommits(dfl, dfl') => dfl.sent = dfl.start
       /\ mfl'.ph # "idle" => mfl'.start # <<>>
       /\ dfl'.ph # "idle" => dfl'.start # <<>>]_vars

\* C13: a media frame received before any start event changes nothing: no
\* session is created, nothing is buffered, nothing is sent on either
\* socket, nothing is raised and the receive loop takes the next frame.
C13_EarlyMediaIgnored ==
    [][~bridge =>
          /\ (hist'.early_media /\ ~hist.early_media) =>
                /\ mpc' = "recv"
                /\ ~bridge'
                /\ UNCHANGED <<tw, twout, conn, openai_ws, wire, buffer,
                               bridge_task, waiting_for_response>>
          /\ ~bridge' =>
                /\ buffer' = <<>> /\ wire' = NoWire /\ twout' = <<>>
                /\ conn' = "none" /\ ~openai_ws' /\ bridge_task' = "none"
                /\ mpc' # "chunk_error" /\ ~close_raised']_vars

\* a media frame has come before the start event and the loop is going on
C13_EarlyMediaSeen ==
    hist.early_media /\ ~bridge /\ mpc = "recv"

\* the media frames sent to the caller, in the order they were sent
MediaSent == SelectSeq(twout, LAMBDA f : f.event = "media")

\* C14: the deltas reach the caller in the order the model emitted them:
\* the k-th media frame on the telephony socket carries the k-th delta with
\* audio and the call's streamSid, and unless the drain task has died every
\* delta it has read has its frame (a delta whose send fails has none, and
\* is the task's last).
C14_DeltasInOrder ==
    /\ \A k \in 1..Len(MediaSent) :
          MediaSent[k].payload = k /\ MediaSent[k].streamSid = stream_sid
    /\ Len(MediaSent) <= hist.deltas
    /\ Len(MediaSent) >= hist.deltas - 1
    /\ bridge_task # "failed" => Len(MediaSent) = hist.deltas

\* ManyDeltas deltas have been forwarded and the drain task reads on
C14_DeltasForwarded ==
    Len(MediaSent) = ManyDeltas /\ bridge_task = "recv"

\* the chunk a step of a flush sends, if it sends one, was not sent before
SendsFresh(fl, fl2) ==
    (fl2.ph = "append" /\ Len(fl2.sent) > Len(fl.sent)) =>
        fl2.sent[Len(fl2.sent)] > wire.high

\* the step that ends a flush clears no chunk that the flush has not sent
ClearsOnlySent(fl, fl2) ==
    (fl.ph = "create" /\ fl2.ph = "idle" /\ buffer' = <<>>) =>
        \A k \in 1..Len(buffer) :
            \E j \in 1..Len(fl.sent) : fl.sent[j] = buffer[k]

\* C15: no chunk is sent to the model in more than one append message, and
\* the clear that ends a flush removes no chunk that this flush has not sent.
C15_NoLossNoDuplication ==
    [][/\ SendsFresh(mfl, mfl') /\ SendsFresh(dfl, dfl')
       /\ ClearsOnlySent(mfl, mfl') /\ ClearsOnlySent(dfl, dfl')]_vars

\* connect() is in progress: media_stream is suspended in one of its awaits
Connecting == mpc \in {"connecting", "c_update", "c_create"}

\* C16: whenever awaiting-response is true and neither connect() nor a flush
\* is in progress, a generation request is outstanding, so that a
\* response.completed is still to come and the flag cannot stay true for
\* ever; also when the completion of connect()'s request was processed
\* before connect() set the flag.
C16_AwaitingHasRequest ==
    (waiting_for_response /\ ~Connecting /\ ~FlushRunning) =>
        wire.outstanding > 0

\* close() has returned to media_stream's finally block
CloseReturned == bridge /\ mpc \in {"tw_close", "done"}

\* C17: close() flushes first, and only a non-empty buffer with no response
\* awaited; then it cancels the drain task and waits for its end; then it
\* closes the model connection.  So the connection is not closed while the
\* drain task is alive, and when close() has returned the drain task has
\* ended and the connection is closed.
C17_CloseOrder ==
    [][/\ (mpc' = "cl_flush" /\ mpc # "cl_flush") =>
             buffer # <<>> /\ ~waiting_for_response /\ openai_ws
       /\ mpc' = "cl_flush" =>
             bridge_task' # "cancelled" /\ conn' # "closed"
       /\ mpc' = "cl_await" =>
             /\ bridge_task' = "cancelled" /\ conn' # "closed"
             /\ mfl'.ph = "idle"
       /\ conn' = "closed" => ~TaskRunning'
       /\ CloseReturned' =>
             ~TaskRunning' /\ conn' # "open" /\ ~openai_ws']_vars

\* close() has returned after a flush, having cancelled the drain task and
\* closed the connection
C17_Closed ==
    /\ CloseReturned /\ ~close_raised
    /\ bridge_task = "cancelled" /\ conn = "closed"
    /\ wire.high > 0 /\ buffer = <<>>

\* C18: a call has at most one live model session at a time, also when its
\* telephony socket carries more than one start event: no session is
\* replaced while its connection is open or its drain task alive, so that
\* the teardown, which closes the last session, leaves none behind.
C18_SingleSession ==
    hist.leaked = 0

\* the mark frames among the frames sent to the caller
MarksIn(frames) == SelectSeq(frames, LAMBDA f : f.event = "mark")

C20_ErrorEventNonFatal ==
    [][hist'.errors > hist.errors =>
          /\ bridge_task = "recv" /\ bridge_task' = "recv"
          /\ UNCHANGED <<buffer, waiting_for_response, conn, openai_ws, tw,
                         twout, tw_closes, wire, mfl, dfl, mpc, bridge,
                         close_raised>>]_vars

\* an error event has been processed and the call goes on
C20_ErrorSurvived ==
    /\ hist.errors = MaxErrors
    /\ bridge_task = "recv" /\ conn = "open"
    /\ mpc = "recv" /\ tw = "connected"

====
